---- MODULE Spec2Model ----
(***************************************************************************)
(* A model of the generic hash table with separate chaining of            *)
(* src/hashtable/hashtable.go and of the channel based sequence protocol  *)
(* it implements (Iter / ForEach).                                         *)
(*                                                                         *)
(* A bucket slot of the Go slice `buckets` is modelled as the sequence of *)
(* the nodes reachable from its head through `next` (<<>> is the nil      *)
(* slot); slot i of the Go slice is element i + 1 of the TLA+ sequence.   *)
(*                                                                         *)
(* The operations are operators from a table to the table they leave        *)
(* (Insert, Resize, Delete) or to the value they return (Get, Size, Hash);  *)
(* the actions DoInsert, DoDelete, DoResize apply them to the table h. The *)
(* counter actualBucketSize keeps its 32 bits, because Delete makes it     *)
(* wrap around, and so does actualBucketLength, because Resize shifts it   *)
(* out of them; sizeItems stays far below 2^31 within the bounds, so it is *)
(* a plain natural.                                                        *)
(***************************************************************************)
EXTENDS Integers, Sequences, FiniteSets, TLC

(***************************************************************************)
(* Bounds of the model.                                                    *)
(***************************************************************************)
\* keys 0 .. MaxKey - 1 have pairwise distinct hashes
MaxKey == 3
\* Insert is not called when it would grow the bucket array beyond MaxCap
MaxCap == 8
\* Delete is not called when actualBucketSize is MaxWrap below zero (mod 2^32)
MaxWrap == 1
\* Insert is not called when it would raise sizeItems (which Delete never lowers)
\* beyond MaxItems
MaxItems == 3
\* number of hash values of the abstract hash function; HashSpace stands for 2^64
HashSpace == 1024
\* the bulk scenario inserts the keys 0, s, 2s, ... for a stride s in 1 .. MaxStride
MaxStride == 8

\* the number of keys of the bulk scenario (the loop of the growth test)
BulkCount == 20

\* the low 10 bits of the FNV-1 constants offset64 = 14695981039346656037 and
\* prime64 = 1099511628211 of hash/fnv
FnvOffset == 805
FnvPrime == 435

\* a key whose hash equals the hash of key 0: a hash collision of distinct keys
CollidingKey == HashSpace

Keys == (0 .. (MaxKey - 1)) \cup {CollidingKey}
\* two values, to tell an overwritten entry from the one it replaced
Values == {1, 2}

(***************************************************************************)
(* uint32 arithmetic.  actualBucketSize is decremented by Delete without   *)
(* any test, so it wraps around, and actualBucketLength is shifted left by *)
(* Resize without any test, so its one bit is shifted out at 2^31; a       *)
(* uint32 is kept as two 16 bit limbs.                                     *)
(***************************************************************************)
Limb == 65536

U32Of(n) == [hi |-> (n \div Limb) % Limb, lo |-> n % Limb]

U32Inc(x) ==
    IF x.lo + 1 < Limb
    THEN [hi |-> x.hi, lo |-> x.lo + 1]
    ELSE [hi |-> (x.hi + 1) % Limb, lo |-> 0]

U32Dec(x) ==
    IF x.lo > 0
    THEN [hi |-> x.hi, lo |-> x.lo - 1]
    ELSE [hi |-> (x.hi + Limb - 1) % Limb, lo |-> Limb - 1]

U32Gt(x, y) == x.hi > y.hi \/ (x.hi = y.hi /\ x.lo > y.lo)

\* x << 1 in uint32: the bit 31 is lost
U32Shl1(x) ==
    [hi |-> (2 * x.hi + ((2 * x.lo) \div Limb)) % Limb, lo |-> (2 * x.lo) % Limb]

\* x >> 1
U32Shr1(x) ==
    [hi |-> x.hi \div 2, lo |-> (x.lo \div 2) + (x.hi % 2) * (Limb \div 2)]

(***************************************************************************)
(* The table.                                                              *)
(***************************************************************************)
NilBucket == <<>>

\* make([]*Node[K, V], length): a hash is below HashSpace, so the index
\* hash % length is too and the slots from HashSpace on stay nil for ever; the
\* model keeps the slots 0 .. HashSpace - 1 of a longer array
SlotsKept(length) ==
    IF U32Gt(length, U32Of(HashSpace)) THEN HashSpace ELSE length.lo

NewHashTable ==
    [actualBucketLength |-> U32Of(2),
     actualBucketSize   |-> U32Of(0),
     sizeItems          |-> 0,
     buckets            |-> [i \in 1 .. SlotsKept(U32Of(2)) |-> NilBucket]]

\* the capacity as a number, for a capacity below 2^31
Capacity(t) == t.actualBucketLength.hi * Limb + t.actualBucketLength.lo

\* a faulty isFull: compares with the whole capacity (the >> 1 is missing)
isFullWhole(h) == U32Gt(h.actualBucketSize, h.actualBucketLength)

isFull(h) == U32Gt(h.actualBucketSize, U32Shr1(h.actualBucketLength))

resetBucket(h, newLength) ==
    [actualBucketLength |-> newLength,
     actualBucketSize   |-> U32Of(0),
     sizeItems          |-> 0,
     buckets            |-> [i \in 1 .. SlotsKept(newLength) |-> NilBucket]]

\* gob encoding followed by FNV-64, abstracted to a fixed function of the key
\* that is many-to-one: the keys k and k + HashSpace have the same hash
generateHash(key) == key % HashSpace

(***************************************************************************)
(* The keys of the growth test are the strings fmt.Sprint(0) ..            *)
(* fmt.Sprint(19).  Their hashes are computed as generateHash computes     *)
(* them, gob encoding and FNV-1, keeping the low 10 bits of the 64: the    *)
(* low bits of a product and of an exclusive or depend on the low bits of  *)
(* the operands only, and 10 bits decide the slot for every capacity up to *)
(* 1024.  StringKey(i) is the key of the model that stands for the string  *)
(* fmt.Sprint(i): the key whose hash has these low bits.                   *)
(***************************************************************************)
\* the low bits kept of a 64 bit hash
HashBits == 2 ^ 10

\* fmt.Sprint(i) for 0 <= i <= 99: the bytes of the decimal digits
Sprint(i) == IF i < 10 THEN <<48 + i>> ELSE <<48 + (i \div 10), 48 + (i % 10)>>

\* gob.NewEncoder(&keyBuffer).Encode(key) for a string key shorter than 125
\* bytes: the message length, the type id of string (6, sent as the signed
\* integer 12), the zero byte of a top level value that is not a struct, the
\* length of the string and its bytes
GobEncode(str) == <<Len(str) + 3, 12, 0, Len(str)>> \o str

\* bitwise exclusive or of two naturals
RECURSIVE Xor(_, _)
Xor(a, b) ==
    IF a = 0 THEN b
    ELSE IF b = 0 THEN a
    ELSE 2 * Xor(a \div 2, b \div 2) + ((a + b) % 2)

\* hash/fnv New64 is FNV-1: for every byte, multiply by the prime, then xor
\* the byte; FnvOffset and FnvPrime are the low bits of offset64 and prime64
RECURSIVE Fnv(_, _)
Fnv(bytes, j) ==
    IF j = 0
    THEN FnvOffset
    ELSE Xor((Fnv(bytes, j - 1) * FnvPrime) % HashBits, bytes[j])

StringHash(str) == Fnv(GobEncode(str), Len(GobEncode(str)))

StringKey(i) == StringHash(Sprint(i))

\* uint32(hash % uint64(h.actualBucketLength)), for a capacity that is not 0
\* (the division by 0 is the panic of Insert, Get and Delete below); a hash is
\* below HashSpace, hence below every capacity of 2^16 or more
generateIndex(h, hash) ==
    IF h.actualBucketLength.hi > 0
    THEN hash
    ELSE hash % h.actualBucketLength.lo

Hash(h, key) ==
    [hash |-> generateHash(key), index |-> generateIndex(h, generateHash(key))]

\* position of the first node of the chain whose stored hash is `hash`, 0 if none
FirstMatch(chain, hash) ==
    IF \E j \in 1 .. Len(chain) : chain[j].hash = hash
    THEN CHOOSE j \in 1 .. Len(chain) :
            /\ chain[j].hash = hash
            /\ \A i \in 1 .. (j - 1) : chain[i].hash # hash
    ELSE 0

\* a faulty HandleColision: returns on a hash match without storing the entry
HandleColisionNoOverwrite(h, newNode, index) ==
    LET chain == h.buckets[index + 1]
    IN  IF FirstMatch(chain, newNode.hash) # 0
        THEN h
        ELSE [h EXCEPT !.buckets[index + 1] = Append(chain, newNode),
                       !.sizeItems = h.sizeItems + 1]

\* a faulty HandleColision: appends the node without counting it
HandleColisionNoCount(h, newNode, index) ==
    LET chain == h.buckets[index + 1]
        j     == FirstMatch(chain, newNode.hash)
    IN  IF j # 0
        THEN [h EXCEPT !.buckets[index + 1][j].key = newNode.key,
                       !.buckets[index + 1][j].value = newNode.value]
        ELSE [h EXCEPT !.buckets[index + 1] = Append(chain, newNode)]

HandleColision(h, newNode, index) ==
    LET chain == h.buckets[index + 1]
        j     == FirstMatch(chain, newNode.hash)
    IN  IF j # 0
        THEN [h EXCEPT !.buckets[index + 1][j].key = newNode.key,
                       !.buckets[index + 1][j].value = newNode.value]
        ELSE [h EXCEPT !.buckets[index + 1] = Append(chain, newNode),
                       !.sizeItems = h.sizeItems + 1]

\* the nodes reachable from the slots lo .. hi in traversal order: slot by slot,
\* and within a slot from the head along next
RECURSIVE Flatten(_, _, _)
Flatten(buckets, lo, hi) ==
    IF lo > hi
    THEN <<>>
    ELSE IF lo = hi
         THEN buckets[lo]
         ELSE Flatten(buckets, lo, (lo + hi) \div 2)
                \o Flatten(buckets, (lo + hi) \div 2 + 1, hi)

RECURSIVE Insert(_, _, _)
RECURSIVE insertNode(_, _, _)
RECURSIVE Resize(_)
RECURSIVE Reinsert(_, _, _)

\* a faulty loop of Resize: re-inserts nothing
ReinsertNone(h, nodes, j) == h

\* the loops of Resize: Insert is called on the first j nodes of the snapshot, in
\* traversal order, each call working on the table the call before it left
Reinsert(h, nodes, j) ==
    IF j = 0
    THEN h
    ELSE Insert(Reinsert(h, nodes, j - 1), nodes[j].key, nodes[j].value)

\* a faulty Resize: re-inserts the head of every slot and not the nodes behind it
ResizeHeadsOnly(h) ==
    LET tempBucket == h.buckets
        heads      == [i \in 1 .. Len(tempBucket) |->
                          IF tempBucket[i] = NilBucket
                          THEN <<>>
                          ELSE <<tempBucket[i][1]>>]
        nodes      == Flatten(heads, 1, Len(heads))
    IN  Reinsert(resetBucket(h, U32Shl1(h.actualBucketLength)), nodes, Len(nodes))

\* a faulty Resize: doubles the array and leaves every chain in the slot it had
ResizeNoRehash(h) ==
    [h EXCEPT !.actualBucketLength = U32Shl1(h.actualBucketLength),
              !.buckets = h.buckets \o [i \in 1 .. Len(h.buckets) |-> NilBucket]]

\* a faulty Resize: quadruples the array
ResizeQuadruple(h) ==
    LET tempBucket == h.buckets
        nodes      == Flatten(tempBucket, 1, Len(tempBucket))
    IN  Reinsert(resetBucket(h, U32Shl1(U32Shl1(h.actualBucketLength))), nodes, Len(nodes))

\* h.actualBucketLength << 1 is 0 for the capacity 2^31: the table is left with
\* no slot, and the first re-insertion, if there is a node, panics (see Insert)
Resize(h) ==
    LET tempBucket == h.buckets
        nodes      == Flatten(tempBucket, 1, Len(tempBucket))
    IN  Reinsert(resetBucket(h, U32Shl1(h.actualBucketLength)), nodes, Len(nodes))

\* a faulty insertNode: stores the node and never looks at isFull
insertNodeNoResize(h, newNode, index) ==
    IF h.buckets[index + 1] = NilBucket
    THEN [h EXCEPT !.buckets[index + 1] = <<newNode>>,
                   !.actualBucketSize = U32Inc(h.actualBucketSize),
                   !.sizeItems = h.sizeItems + 1]
    ELSE HandleColision(h, newNode, index)

insertNode(h, newNode, index) ==
    LET h1 == IF h.buckets[index + 1] = NilBucket
              THEN [h EXCEPT !.buckets[index + 1] = <<newNode>>,
                             !.actualBucketSize = U32Inc(h.actualBucketSize),
                             !.sizeItems = h.sizeItems + 1]
              ELSE HandleColision(h, newNode, index)
    IN  IF isFull(h1) THEN Resize(h1) ELSE h1

\* the table has no slot: h.Hash(key) panics in generateIndex, "integer divide
\* by zero", before the table is touched, and the panic ends every call in
\* progress (Insert, insertNode, Resize) with the table as it is
DividesByZero(h) == h.actualBucketLength = U32Of(0)

Insert(h, key, value) ==
    IF DividesByZero(h)
    THEN h
    ELSE LET hi == Hash(h, key)
         IN  insertNode(h, [key |-> key, value |-> value, hash |-> hi.hash],
                        hi.index)

\* found = FALSE is a panic: "key not found", or the division by zero
Get(h, key) ==
    IF DividesByZero(h)
    THEN [found |-> FALSE, value |-> 0]
    ELSE LET hi    == Hash(h, key)
             chain == h.buckets[hi.index + 1]
             j     == FirstMatch(chain, hi.hash)
         IN  IF chain = NilBucket \/ j = 0
             THEN [found |-> FALSE, value |-> 0]
             ELSE [found |-> TRUE, value |-> chain[j].value]

Delete(h, key) ==
    IF DividesByZero(h)
    THEN h
    ELSE LET hi == Hash(h, key)
         IN  [h EXCEPT !.buckets[hi.index + 1] = NilBucket,
                       !.actualBucketSize = U32Dec(h.actualBucketSize)]

Size(h) == h.sizeItems

\* all nodes reachable from the slots of the table, in traversal order
Nodes(t) == Flatten(t.buckets, 1, Len(t.buckets))

(***************************************************************************)
(* State.                                                                  *)
(*   h        the table                                                    *)
(*   last     history: the pairs <<key, value>> of the most recent Insert  *)
(*            of every key inserted so far                                 *)
(*   deleted  history: Delete was called at least once                     *)
(*   lastOp   the most recent call that changed the state, its arguments   *)
(*            and the capacity it started from (Get and Size only read the *)
(*            table: they are the operators Get and Size)                  *)
(*   prod     the goroutine started by Iter: pc, the slot b it is at and   *)
(*            the position n in the chain of the node it is sending        *)
(*   cons     the consumer of the channel                                  *)
(*   received the entries the consumer has received from the channel       *)
(***************************************************************************)
VARIABLES h, last, deleted, lastOp, prod, cons, received

vars == <<h, last, deleted, lastOp, prod, cons, received>>

NoProducer == [pc |-> "none", b |-> 0, n |-> 0]

Call(op, key, value) ==
    [op |-> op, key |-> key, value |-> value, cap0 |-> Capacity(h)]

Init ==
    /\ h = NewHashTable
    /\ last = {}
    /\ deleted = FALSE
    /\ lastOp = [op |-> "New", key |-> 0, value |-> 0, cap0 |-> 2]
    /\ prod = NoProducer
    /\ cons = "idle"
    /\ received = <<>>

Record(key, value) == {p \in last : p[1] # key} \cup {<<key, value>>}

\* hashtable.Insert(key, value)
DoInsert(key, value) ==
    /\ cons = "idle"
    /\ LET r == Insert(h, key, value)
       IN  /\ Capacity(r) <= MaxCap
           /\ r.sizeItems <= MaxItems
           /\ h' = r
    /\ last' = Record(key, value)
    /\ lastOp' = Call("Insert", key, value)
    /\ UNCHANGED <<deleted, prod, cons, received>>

\* hashtable.Resize(): the method is exported, a caller can run it on any table
DoResize ==
    /\ cons = "idle"
    /\ LET r == Resize(h)
       IN  /\ Capacity(r) <= MaxCap
           /\ h' = r
    /\ lastOp' = Call("Resize", 0, 0)
    /\ UNCHANGED <<last, deleted, prod, cons, received>>

Wrapped(x) == x.hi = Limb - 1

\* hashtable.Delete(key)
DoDelete(key) ==
    /\ cons = "idle"
    /\ ~ (Wrapped(h.actualBucketSize) /\ h.actualBucketSize.lo <= Limb - MaxWrap)
    /\ h' = Delete(h, key)
    /\ deleted' = TRUE
    /\ lastOp' = Call("Delete", key, 0)
    /\ UNCHANGED <<last, prod, cons, received>>

(***************************************************************************)
(* Iter: an unbuffered channel and a goroutine that walks the bucket array *)
(* and sends every entry; the consumer is a `for range` over the channel.  *)
(***************************************************************************)
\* hashtable.Iter(): make the channel, start the goroutine, return the channel
IterCall ==
    /\ cons = "idle"
    /\ prod' = [pc |-> "start", b |-> 0, n |-> 0]
    /\ cons' = "receiving"
    /\ received' = <<>>
    /\ lastOp' = Call("Iter", 0, 0)
    /\ UNCHANGED <<h, last, deleted>>

\* the first slot at or after b that is not nil, Len(buckets) if there is none:
\* the `continue` steps of the goroutine's loop, which read the table only
NextSlot(buckets, b) ==
    IF \E i \in b .. (Len(buckets) - 1) : buckets[i + 1] # NilBucket
    THEN CHOOSE i \in b .. (Len(buckets) - 1) :
            /\ buckets[i + 1] # NilBucket
            /\ \A k \in b .. (i - 1) : buckets[k + 1] = NilBucket
    ELSE Len(buckets)

\* a faulty goroutine: leaves the loop and returns without close(iterator)
RunFromNoClose(buckets, b) ==
    IF NextSlot(buckets, b) >= Len(buckets)
    THEN [pc |-> "returned", b |-> Len(buckets), n |-> 0]
    ELSE [pc |-> "send", b |-> NextSlot(buckets, b), n |-> 1]

\* the goroutine runs `for _, node := range h.buckets` from slot b up to its next
\* channel operation: the send of the head of a slot, or close(iterator)
RunFrom(buckets, b) ==
    IF NextSlot(buckets, b) >= Len(buckets)
    THEN [pc |-> "closed", b |-> Len(buckets), n |-> 0]
    ELSE [pc |-> "send", b |-> NextSlot(buckets, b), n |-> 1]

\* a faulty goroutine: goes on to the next slot without following next
AfterSendHeadOnly(buckets, p) ==
    IF NextSlot(buckets, p.b + 1) >= Len(buckets)
    THEN [pc |-> "closed", b |-> Len(buckets), n |-> 0]
    ELSE [pc |-> "send", b |-> NextSlot(buckets, p.b + 1), n |-> 1]

\* the goroutine after the send of node n of slot b: `for node.next != nil` sends
\* the next node of the chain, and after the last one the outer loop goes on
AfterSend(buckets, p) ==
    IF p.n < Len(buckets[p.b + 1])
    THEN [pc |-> "send", b |-> p.b, n |-> p.n + 1]
    ELSE RunFrom(buckets, p.b + 1)

\* a faulty send: the entry of the head of the slot, whatever node is reached
SendingHead(buckets, p) ==
    [Key |-> buckets[p.b + 1][1].key, Value |-> buckets[p.b + 1][1].value]

\* the entry the goroutine is sending
Sending(buckets, p) ==
    [Key |-> buckets[p.b + 1][p.n].key, Value |-> buckets[p.b + 1][p.n].value]

\* the goroutine is scheduled for the first time
ProducerStart ==
    /\ prod.pc = "start"
    /\ prod' = RunFrom(h.buckets, 0)
    /\ UNCHANGED <<h, last, deleted, lastOp, cons, received>>

\* the rendezvous of `iterator <- Entry{...}` with the consumer's receive
Handoff ==
    /\ prod.pc = "send"
    /\ cons = "receiving"
    /\ received' = Append(received, Sending(h.buckets, prod))
    /\ prod' = AfterSend(h.buckets, prod)
    /\ UNCHANGED <<h, last, deleted, lastOp, cons>>

\* the consumer leaves its loop early and never receives again
ConsumerAbandon ==
    /\ cons = "receiving"
    /\ prod.pc # "closed"
    /\ cons' = "abandoned"
    /\ UNCHANGED <<h, last, deleted, lastOp, prod, received>>

\* the consumer's receive on the closed channel ends its `for range`
ConsumerSeeClose ==
    /\ cons = "receiving"
    /\ prod.pc = "closed"
    /\ cons' = "done"
    /\ UNCHANGED <<h, last, deleted, lastOp, prod, received>>

\* the caller of the finished loop goes on
IterReturn ==
    /\ cons = "done"
    /\ cons' = "idle"
    /\ prod' = NoProducer
    /\ received' = <<>>
    /\ UNCHANGED <<h, last, deleted, lastOp>>

Next ==
    \/ \E key \in Keys, value \in Values : DoInsert(key, value)
    \/ \E key \in Keys : DoDelete(key)
    \/ DoResize
    \/ IterCall
    \/ ProducerStart
    \/ Handoff
    \/ ConsumerAbandon
    \/ ConsumerSeeClose
    \/ IterReturn

Spec == Init /\ [][Next]_vars

(***************************************************************************)
(* The same program with a consumer that never leaves its loop early and   *)
(* with the Go scheduler's fairness: a goroutine that can run eventually   *)
(* runs, and a receive on a closed channel returns.                        *)
(***************************************************************************)
FairNext ==
    \/ \E key \in Keys, value \in Values : DoInsert(key, value)
    \/ \E key \in Keys : DoDelete(key)
    \/ DoResize
    \/ IterCall
    \/ ProducerStart
    \/ Handoff
    \/ ConsumerSeeClose
    \/ IterReturn

FairSpec ==
    /\ Init
    /\ [][FairNext]_vars
    /\ WF_vars(ProducerStart)
    /\ WF_vars(Handoff)
    /\ WF_vars(ConsumerSeeClose)

(***************************************************************************)
(* The growth scenario: a loop inserts BulkCount keys of pairwise distinct *)
(* hashes, each with the same value, into a new table.  Family 0 is the    *)
(* loop of the growth test, with the keys fmt.Sprint(0) .. fmt.Sprint(19); *)
(* family s in 1 .. MaxStride has the keys 0, s, 2s, ...                   *)
(***************************************************************************)
Inserted == {p[1] : p \in last}

\* key number i (from 0) of a family
BulkKey(family, i) == IF family = 0 THEN StringKey(i) ELSE i * family

BulkInsert ==
    \E family \in 0 .. MaxStride :
        LET n == Cardinality(Inserted)
        IN  /\ n < BulkCount
            /\ Inserted = {BulkKey(family, i) : i \in 0 .. (n - 1)}
            /\ h' = Insert(h, BulkKey(family, n), 1)
            /\ last' = Record(BulkKey(family, n), 1)
            /\ lastOp' = Call("Insert", BulkKey(family, n), 1)
            /\ UNCHANGED <<deleted, prod, cons, received>>

BulkNext == BulkInsert

BulkSpec == Init /\ [][BulkNext]_vars

(***************************************************************************)
(* The same calls with no bound on the capacity but the 32 bits of         *)
(* actualBucketLength, made with two keys and one value: Resize called     *)
(* directly, or run by the Insert of a stored key when Deletes of the      *)
(* other, empty slot have wrapped actualBucketSize, doubles the array each *)
(* time.  A call that panics (hash % 0) is recorded as lastOp.op = "panic".*)
(***************************************************************************)
GrowKeys == {0, 1}

GrowValues == {1}

GrowCall(op, key, value, t) ==
    [op    |-> IF DividesByZero(t) THEN "panic" ELSE op,
     key   |-> key,
     value |-> value,
     cap0  |-> 0]

\* hashtable.Insert(key, value)
GrowInsert(key, value) ==
    /\ cons = "idle"
    /\ LET r == Insert(h, key, value)
       IN  /\ r.sizeItems <= MaxItems
           /\ h' = r
           /\ last' = IF DividesByZero(r) THEN last ELSE Record(key, value)
           /\ lastOp' = GrowCall("Insert", key, value, r)
    /\ UNCHANGED <<deleted, prod, cons, received>>

\* hashtable.Delete(key)
GrowDelete(key) ==
    /\ cons = "idle"
    /\ ~ (Wrapped(h.actualBucketSize) /\ h.actualBucketSize.lo <= Limb - MaxWrap)
    /\ h' = Delete(h, key)
    /\ deleted' = TRUE
    /\ lastOp' = GrowCall("Delete", key, 0, h)
    /\ UNCHANGED <<last, prod, cons, received>>

\* hashtable.Resize()
GrowResize ==
    /\ cons = "idle"
    /\ h' = Resize(h)
    /\ lastOp' = GrowCall("Resize", 0, 0,
                          IF Nodes(h) = <<>> THEN NewHashTable ELSE Resize(h))
    /\ UNCHANGED <<last, deleted, prod, cons, received>>

GrowNext ==
    \/ \E key \in GrowKeys, value \in GrowValues : GrowInsert(key, value)
    \/ \E key \in GrowKeys : GrowDelete(key)
    \/ GrowResize

GrowSpec == Init /\ [][GrowNext]_vars

(***************************************************************************)
(* Filter: the caller's loop `for entry := range h.Iter()` appends to a    *)
(* List (package iterator) every received entry for which f holds.  The    *)
(* consumer of the model is that loop; the collection it has built is a    *)
(* function of the entries received so far.  A predicate f is a function   *)
(* from entries to BOOLEAN.                                                *)
(***************************************************************************)
Entries == [Key : Keys, Value : Values]

\* the predicates f handed to Filter: by key (as in TestFilter) and by value
Predicates ==
    {[e \in Entries |-> e.Key = k] : k \in Keys}
        \cup {[e \in Entries |-> e.Value = v] : v \in Values}

\* iterator.NewList: an empty slice
NewList == <<>>

\* a faulty List.Append: puts the element in front
ListAppendFront(l, element) == <<element>> \o l

\* List.Append
ListAppend(l, element) == l \o <<element>>

\* the loop of Filter after the first j entries received
RECURSIVE FilterLoop(_, _, _)
FilterLoop(f, entries, j) ==
    IF j = 0
    THEN NewList
    ELSE IF f[entries[j]]
         THEN ListAppend(FilterLoop(f, entries, j - 1), entries[j])
         ELSE FilterLoop(f, entries, j - 1)

\* the collection of Filter(f): what it returns once the channel is closed
Filter(f) == FilterLoop(f, received, Len(received))

(***************************************************************************)
(* Vocabulary of the properties.                                           *)
(***************************************************************************)
LastPair(key) == CHOOSE p \in last : p[1] = key

DistinctHashes(S) ==
    \A a \in S, b \in S : a # b => generateHash(a) # generateHash(b)

Found(value) == [found |-> TRUE, value |-> value]

\* the table holds the key: some node reachable from a slot stores it
Holds(t, key) ==
    LET nodes == Nodes(t)
    IN  \E i \in 1 .. Len(nodes) : nodes[i].key = key

HasChain(t) == \E i \in 1 .. Len(t.buckets) : Len(t.buckets[i]) >= 2

Times(seq, x) == Cardinality({i \in 1 .. Len(seq) : seq[i] = x})

\* the slots of the bucket array that are not nil
NonEmptySlots(t) == {i \in 1 .. Len(t.buckets) : t.buckets[i] # NilBucket}

\* 2^e as a uint32, for 0 <= e <= 31
U32PowerOfTwo(e) ==
    IF e < 16 THEN [hi |-> 0, lo |-> 2 ^ e] ELSE [hi |-> 2 ^ (e - 16), lo |-> 0]

IsPowerOfTwo(x) == \E e \in 0 .. 31 : x = U32PowerOfTwo(e)

\* the powers of two above c: for a capacity c, itself a power of two, these are
\* the capacities 2c, 4c, 8c, ... that the table can grow to
LargerCapacities(c) == {d \in {2 ^ e : e \in 1 .. 30} : d > c}

\* the slots that the nodes of the table occupy in a bucket array of c slots
SlotsAt(t, c) == {Nodes(t)[i].hash % c : i \in 1 .. Len(Nodes(t))}

\* the nodes of the table do not fill a bucket array of c slots (see isFull)
Fits(t, c) == Cardinality(SlotsAt(t, c)) <= c \div 2

Max(a, b) == IF a >= b THEN a ELSE b

\* the entries of the table in traversal order: slot by slot in array order, and
\* within a slot from the head along next
Traversal(t) ==
    LET nodes == Nodes(t)
    IN  [i \in 1 .. Len(nodes) |-> [Key |-> nodes[i].key, Value |-> nodes[i].value]]

\* no entry occurs twice in seq
NoDuplicates(seq) == \A i, j \in 1 .. Len(seq) : seq[i] = seq[j] => i = j

\* the entries of seq for which f holds, in the order of seq
Kept(f, seq) == SelectSeq(seq, LAMBDA e : f[e])

(***************************************************************************)
(* C1. Round trip: in every reachable state, a state that Insert(k, v) has *)
(* just produced (with or without Resizes, before or after Deletes) is one *)
(* in which Get(k) returns v.                                              *)
(***************************************************************************)
C1_InsertGetRoundTrip ==
    lastOp.op = "Insert" => Get(h, lastOp.key) = Found(lastOp.value)

\* an Insert after a Delete that grew the table and whose key is found
C1_Witness ==
    /\ lastOp.op = "Insert"
    /\ deleted
    /\ Capacity(h) > lastOp.cap0
    /\ Get(h, lastOp.key) = Found(lastOp.value)

(***************************************************************************)
(* C2. With Insert calls only and keys of pairwise distinct hashes, after  *)
(* each Insert every key inserted so far is found with the value of its    *)
(* most recent Insert: no Resize, nested or not, loses or changes one.     *)
(***************************************************************************)
C2_ResizePreservesMappings ==
    (~ deleted /\ DistinctHashes(Inserted)) =>
        \A p \in last : Get(h, p[1]) = Found(p[2])

\* an Insert whose Resize nested a Resize (the capacity went from 2 to 8) with
\* three keys stored
C2_Witness ==
    /\ ~ deleted
    /\ DistinctHashes(Inserted)
    /\ Cardinality(Inserted) >= 3
    /\ lastOp.op = "Insert"
    /\ Capacity(h) >= 4 * lastOp.cap0

(***************************************************************************)
(* C3. Insert(k, v2) on a table that holds k leaves Size() and             *)
(* occupiedBuckets as they were, adds no node, and makes Get(k) return v2. *)
(***************************************************************************)
C3_OverwriteKeepsCounts ==
    [][(lastOp'.op = "Insert" /\ Holds(h, lastOp'.key)) =>
          /\ Size(h') = Size(h)
          /\ h'.actualBucketSize = h.actualBucketSize
          /\ Len(Nodes(h')) = Len(Nodes(h))
          /\ Get(h', lastOp'.key) = Found(lastOp'.value)]_vars

(***************************************************************************)
(* C4. With Insert calls only, Size() is the number of distinct hashes     *)
(* among the keys inserted so far.                                         *)
(***************************************************************************)
C4_SizeCountsDistinctKeys ==
    ~ deleted => Size(h) = Cardinality({generateHash(k) : k \in Inserted})

\* all keys inserted, two of them with one hash, after Resizes up to capacity 8
C4_Witness ==
    /\ ~ deleted
    /\ CollidingKey \in Inserted
    /\ Cardinality(Inserted) = MaxKey + 1
    /\ Size(h) = MaxKey
    /\ Capacity(h) >= 8

(***************************************************************************)
(* C5. Get(k) signals KeyNotFound for every key k that was never inserted, *)
(* in every reachable state.                                               *)
(***************************************************************************)
C5_MissingKeyFails ==
    \A k \in Keys : k \notin Inserted => ~ Get(h, k).found

(***************************************************************************)
(* C6. Delete(k) empties the slot of k and lowers occupiedBuckets by one,  *)
(* so that Get(k) then fails and a table that held the one key k has       *)
(* occupiedBuckets = 0; capacity, itemCount and all other slots stay.      *)
(***************************************************************************)
C6_DeleteFrame ==
    [][lastOp'.op = "Delete" =>
          LET k == lastOp'.key
              i == Hash(h, k).index
          IN  /\ h'.buckets[i + 1] = NilBucket
              /\ h'.actualBucketSize = U32Dec(h.actualBucketSize)
              /\ ~ Get(h', k).found
              /\ (Len(Nodes(h)) = 1 /\ Holds(h, k)) => h'.actualBucketSize = U32Of(0)
              /\ Capacity(h') = Capacity(h)
              /\ Size(h') = Size(h)
              /\ \A j \in 1 .. Len(h.buckets) :
                    j # i + 1 => h'.buckets[j] = h.buckets[j]]_vars

(***************************************************************************)
(* C7. For a table built by Insert calls only with keys of pairwise        *)
(* distinct hashes, the consumer that drains Iter() has received, when it  *)
(* sees the channel closed, every stored (key, value) pair exactly once    *)
(* and nothing else.                                                       *)
(***************************************************************************)
C7_TraversalComplete ==
    (cons = "done" /\ ~ deleted /\ DistinctHashes(Inserted)) =>
        /\ Len(received) = Cardinality(last)
        /\ \A p \in last : Times(received, [Key |-> p[1], Value |-> p[2]]) = 1

\* a drained iteration over a table with a chain
C7_Witness ==
    /\ cons = "done"
    /\ ~ deleted
    /\ DistinctHashes(Inserted)
    /\ HasChain(h)
    /\ Len(received) >= 2

(***************************************************************************)
(* C8. When the consumer has abandoned the channel, the goroutine of Iter  *)
(* has terminated or can still take a step: it is never blocked for good.  *)
(***************************************************************************)
C8_AbandonedProducerTerminates ==
    cons = "abandoned" => (prod.pc = "closed" \/ ENABLED (ProducerStart \/ Handoff))

(***************************************************************************)
(* C9. A consumer that keeps receiving eventually sees the channel closed, *)
(* the goroutine has then terminated, and when no Delete has occurred the  *)
(* number of entries received is Size().                                   *)
(***************************************************************************)
C9_IterationFinite ==
    (cons = "receiving") ~>
        (/\ cons = "done"
         /\ prod.pc = "closed"
         /\ (~ deleted => Len(received) = Size(h)))

\* a finished iteration over at least two entries, no Delete before it
C9_Witness ==
    /\ cons = "done"
    /\ prod.pc = "closed"
    /\ ~ deleted
    /\ Size(h) >= 2
    /\ Len(received) = Size(h)

(***************************************************************************)
(* C10. After BulkCount keys of pairwise distinct hashes were inserted     *)
(* into a new table, the capacity is at least 32.                          *)
(***************************************************************************)
BulkDone == ~ deleted /\ DistinctHashes(Inserted) /\ Cardinality(Inserted) = BulkCount

C10_CapacityAtLeast32 == BulkDone => Capacity(h) >= 32

(***************************************************************************)
(* C10, amended.  After BulkCount keys of pairwise distinct hashes were    *)
(* inserted into a new table, the capacity is at least 32 exactly when the *)
(* hashes take more than 8 distinct values modulo 16, that is, when they   *)
(* occupy more than half of the slots of a table of capacity 16.           *)
(***************************************************************************)
C10_CapacityByOccupiedSlots ==
    BulkDone =>
        (Capacity(h) >= 32 <=>
            Cardinality({generateHash(k) % 16 : k \in Inserted}) > 8)

\* the loop of the growth test has run: the hashes of its twenty keys take all
\* 16 values modulo 16 and 16 values modulo 32, the capacity has grown to 32
C10_Witness ==
    /\ BulkDone
    /\ Inserted = {StringKey(i) : i \in 0 .. (BulkCount - 1)}
    /\ Cardinality({generateHash(k) % 16 : k \in Inserted}) > 8
    /\ Capacity(h) = 32

(***************************************************************************)
(* C11. Filter(p) returns exactly the entries of the table's traversal for *)
(* which p holds: each of them once, none that fails p, in traversal       *)
(* order.                                                                  *)
(***************************************************************************)
C11_FilterKeepsMatching ==
    cons = "done" =>
        LET traversal == Traversal(h)
        IN  /\ NoDuplicates(traversal)
            /\ \A f \in Predicates : Filter(f) = Kept(f, traversal)

\* a finished Filter over three entries, one of them in a chain, that kept two
\* entries and dropped one
C11_Witness ==
    /\ cons = "done"
    /\ HasChain(h)
    /\ Len(received) = 3
    /\ \E f \in Predicates : Len(Filter(f)) = 2

(***************************************************************************)
(* C12. In every reachable state, occupiedBuckets is the number of bucket  *)
(* slots that are not empty.                                               *)
(***************************************************************************)
C12_OccupiedIsNonEmptySlots ==
    h.actualBucketSize = U32Of(Cardinality(NonEmptySlots(h)))

(***************************************************************************)
(* C13. In every reachable state, occupiedBuckets, as the unsigned 32 bit  *)
(* counter the table stores, is at most the capacity.                      *)
(***************************************************************************)
C13_OccupiedAtMostCapacity ==
    ~ U32Gt(h.actualBucketSize, U32Of(Capacity(h)))

(***************************************************************************)
(* C14. In every reachable state, Size() is the number of nodes reachable  *)
(* from the bucket slots through their chains.                             *)
(***************************************************************************)
C14_SizeIsNodeCount == Size(h) = Len(Nodes(h))

(***************************************************************************)
(* C15. In every reachable state, every node reachable from slot i has a   *)
(* stored hash with hash mod capacity = i, for the current capacity.       *)
(***************************************************************************)
C15_NodesInTheirSlot ==
    \A i \in 1 .. Len(h.buckets) :
        \A j \in 1 .. Len(h.buckets[i]) :
            h.buckets[i][j].hash % Capacity(h) = i - 1

\* an Insert, after a Delete, that grew the table and moved a node to a slot of
\* the upper half of the new array
C15_Witness ==
    /\ lastOp.op = "Insert"
    /\ deleted
    /\ Capacity(h) > lastOp.cap0
    /\ Len(Nodes(h)) >= 2
    /\ \E i \in NonEmptySlots(h) : i - 1 >= lastOp.cap0 /\ h.buckets[i][1].key # lastOp.key

(***************************************************************************)
(* C16. The capacity is 2 on a new table, is a power of two in every       *)
(* reachable state, never decreases, and an Insert (or a Resize) that      *)
(* makes it grow leaves it at least double its value before the call.      *)
(* The capacity is compared as the uint32 the table stores.                *)
(***************************************************************************)
C16_CapacityPowerOfTwoMonotone ==
    /\ h.actualBucketLength = U32Of(2)
    /\ [] IsPowerOfTwo(h.actualBucketLength)
    /\ [][/\ ~ U32Gt(h.actualBucketLength, h'.actualBucketLength)
          /\ U32Gt(h'.actualBucketLength, h.actualBucketLength) =>
                /\ lastOp'.op \in {"Insert", "Resize"}
                /\ ~ U32Gt(h.actualBucketLength, U32Shr1(h'.actualBucketLength))]_vars

(***************************************************************************)
(* C17. No re-insertion of Resize triggers a nested Resize: a Resize, run  *)
(* by an Insert or called directly, leaves the capacity at exactly twice   *)
(* its value before the call.                                              *)
(***************************************************************************)
C17_NoNestedResize ==
    [][(lastOp'.op \in {"Insert", "Resize"}
            /\ Capacity(h') # Capacity(h)) =>
          Capacity(h') = 2 * Capacity(h)]_vars

(***************************************************************************)
(* C17, amended.  A Resize, run by an Insert or called directly, leaves    *)
(* the capacity at the smallest of 2c, 4c, 8c, ... (c the capacity before  *)
(* the call) at                                                            *)
(* which the entries occupy at most half of the slots: a re-insertion      *)
(* triggers a nested Resize exactly when the entries occupy more than half *)
(* of the slots of the array it fills.                                     *)
(***************************************************************************)
C17_ResizeToLeastFittingCapacity ==
    [][(lastOp'.op \in {"Insert", "Resize"}
            /\ Capacity(h') # Capacity(h)) =>
          /\ Capacity(h') \in LargerCapacities(Capacity(h))
          /\ Fits(h', Capacity(h'))
          /\ \A c \in LargerCapacities(Capacity(h)) :
                c < Capacity(h') => ~ Fits(h', c)]_vars

\* an Insert whose Resize nested a Resize: the entries did not fit the doubled array
C17_Witness ==
    /\ lastOp.op = "Insert"
    /\ Capacity(h) = 4 * lastOp.cap0
    /\ ~ Fits(h, 2 * lastOp.cap0)
    /\ Fits(h, Capacity(h))

(***************************************************************************)
(* C18. After every Insert call, from any reachable state, the table is    *)
(* not full: occupiedBuckets <= capacity / 2.                              *)
(***************************************************************************)
C18_NotFullAfterInsert ==
    lastOp.op = "Insert" =>
        ~ U32Gt(h.actualBucketSize, U32Of(Capacity(h) \div 2))

\* an Insert, after a Delete, that found the table full, grew it and left exactly
\* half of the slots occupied
C18_Witness ==
    /\ lastOp.op = "Insert"
    /\ deleted
    /\ Capacity(h) > lastOp.cap0
    /\ h.actualBucketSize = U32Of(Capacity(h) \div 2)

(***************************************************************************)
(* C19. Every Insert call terminates and succeeds, from every reachable    *)
(* state: the table it leaves holds the key with the value, and the        *)
(* recursion Insert -> Resize -> Insert it ran has finite depth.  Every    *)
(* Resize call of the recursion doubles the capacity once, and the         *)
(* capacity the call leaves is at most the larger of twice the capacity    *)
(* before the call and four times the number of entries.                   *)
(***************************************************************************)
C19_InsertTerminatesAndStores ==
    [][lastOp'.op = "Insert" =>
          /\ Holds(h', lastOp'.key)
          /\ Get(h', lastOp'.key) = Found(lastOp'.value)
          /\ Capacity(h') <=
                Max(2 * Capacity(h), 4 * (Len(Nodes(h)) + 1))]_vars

\* an Insert, after a Delete, that ran a Resize and a nested Resize and stored
\* its entry
C19_Witness ==
    /\ lastOp.op = "Insert"
    /\ deleted
    /\ Capacity(h) = 4 * lastOp.cap0
    /\ Holds(h, lastOp.key)
    /\ Get(h, lastOp.key) = Found(lastOp.value)

(***************************************************************************)
(* C20. The consumer of Iter() receives the entries in traversal order:    *)
(* at every moment what it has received is the beginning of the traversal  *)
(* of the table (slots in array order, each chain from its head), and when *)
(* it sees the channel closed it is the whole traversal; nothing is        *)
(* reordered, dropped or duplicated.                                       *)
(***************************************************************************)
C20_ReceivedInTraversalOrder ==
    [](cons # "idle" =>
          LET traversal == Traversal(h)
          IN  /\ Len(received) <= Len(traversal)
              /\ received = SubSeq(traversal, 1, Len(received))
              /\ cons = "done" => received = traversal)

\* a drained iteration that received a chain of two entries and then the entry of
\* a later slot
C20_Witness ==
    /\ cons = "done"
    /\ Len(h.buckets[1]) = 2
    /\ Len(received) = 3
    /\ received = Traversal(h)

====
